---- MODULE Spec2Model ----
(***************************************************************************)
(* Model of projection_subtraction.py (pyem): the orchestrator main(), the *)
(* lazy particle producer particles(), the per-particle task subtract()    *)
(* with make_proj(), the MetaData record and its write-back, and the       *)
(* ordered parallel map (pool.imap) main() hands the producer to.          *)
(*                                                                         *)
(* Representation.  Floats are integers.  A 2D image is a sequence of      *)
(* pixel values over Pixels, a 3D volume a sequence of voxel values over   *)
(* Grid.  Euler angles are degrees in multiples of 90.  A path is a        *)
(* sequence of components [base, num, ext]; an image name "head@path" is   *)
(* kept split at "@": <<head, path>>, or <<head>> when it holds no "@",    *)
(* head being a sequence of characters.  Python's None is <<>>.            *)
(* The EMAN2/sparx library calls (project, generate_ctf, filt_ctf, the     *)
(* "math.sub.optimal" and "normalize" processors, phase_cog) are small     *)
(* integer functions that keep the calls' arguments and dependencies.      *)
(***************************************************************************)
EXTENDS Integers, Sequences, FiniteSets, TLC

\* ------------------------------------------------------------ bounds
MaxN == 4
MaxProc == 2
MaxPart == 2
MaxSerialN == 1
MaxVolN == 2

\* ------------------------------------------------- program constants
MaxChunk == 1000
NameWidth == 6

\* ---------------------------------------------------------- helpers
Min(a, b) == IF a < b THEN a ELSE b

RECURSIVE SeqSum(_)
SeqSum(s) == IF s = <<>> THEN 0 ELSE Head(s) + SeqSum(Tail(s))

RECURSIVE Concat(_)
Concat(ss) == IF ss = <<>> THEN <<>> ELSE Head(ss) \o Concat(Tail(ss))

\* ------------------------------------------------------------ paths
Comp(base, num, ext) == [base |-> base, num |-> num, ext |-> ext]
Dir(base) == Comp(base, 0, "")
PARDIR == Dir("..")
CURDIR == Dir(".")

\* rchop = lambda x, y: x if not x.endswith(y) or len(y) == 0 else x[:-len(y)]
rchop(x, y) ==
    IF x = <<>> \/ x[Len(x)].ext # y \/ y = ""
    THEN x
    ELSE [x EXCEPT ![Len(x)].ext = ""]

RECURSIVE CommonPrefixLen(_, _)
CommonPrefixLen(a, b) ==
    IF a = <<>> \/ b = <<>> \/ Head(a) # Head(b)
    THEN 0
    ELSE 1 + CommonPrefixLen(Tail(a), Tail(b))

\* os.path.relpath(path, start), both relative to the working directory.
relpath(path, start) ==
    LET c == CommonPrefixLen(start, path)
        rel_list == [k \in 1..(Len(start) - c) |-> PARDIR]
                        \o SubSeq(path, c + 1, Len(path))
    IN IF rel_list = <<>> THEN <<CURDIR>> ELSE rel_list

\* "{0}<ext>".format(os.path.sep.join(parts)): the extension lands on the
\* last component, and on an empty name when there are no parts.
WithExt(parts, ext) ==
    IF parts = <<>>
    THEN <<Comp("", 0, ext)>>
    ELSE [parts EXCEPT ![Len(parts)].ext = ext]

\* mrcsuffix = options.suffix + "_%d" % nfile
MrcSuffix(suffix, nfile) == [suffix EXCEPT ![Len(suffix)].num = nfile]

StarPath(output, suffix, nfile) ==
    WithExt(Tail(relpath(MrcSuffix(suffix, nfile), output)), ".mrcs")

MrcsPath(suffix, nfile) == WithExt(MrcSuffix(suffix, nfile), ".mrcs")
MrcsOrigPath(suffix, nfile) == WithExt(MrcSuffix(suffix, nfile), "_original.mrcs")

\* ------------------------------------------------------ image names
DigitChars == <<"0", "1", "2", "3", "4", "5", "6", "7", "8", "9">>
IsDigit(c) == \E d \in 1..10 : DigitChars[d] = c
DigitVal(c) == (CHOOSE d \in 1..10 : DigitChars[d] = c) - 1

RECURSIVE Digits(_)
Digits(n) ==
    IF n < 10 THEN <<DigitChars[n + 1]>>
    ELSE Digits(n \div 10) \o <<DigitChars[(n % 10) + 1]>>

RECURSIVE ZeroPad(_, _)
ZeroPad(s, w) == IF Len(s) >= w THEN s ELSE ZeroPad(<<"0">> \o s, w)

\* "{0:06d}".format(n)
Format06d(n) == ZeroPad(Digits(n), NameWidth)

\* int(s): defined on non-empty digit strings, raises ValueError otherwise.
IntRaises(s) == s = <<>> \/ \E k \in 1..Len(s) : ~IsDigit(s[k])

RECURSIVE IntOf(_)
IntOf(s) ==
    IF s = <<>> THEN 0
    ELSE 10 * IntOf(SubSeq(s, 1, Len(s) - 1)) + DigitVal(s[Len(s)])

\* "{0:06d}@{1}".format(local, starpath)
ImageName(local, starpath) == <<Format06d(local), starpath>>

\* ------------------------------------------- input image stacks (EMData)
InPath == <<Comp("in", 0, ".mrcs")>>
SmallPath == <<Comp("small", 0, ".mrcs")>>

Pixels == << <<-1, -1>>, <<0, -1>>, <<1, -1>>,
             <<-1,  0>>, <<0,  0>>, <<1,  0>>,
             <<-1,  1>>, <<0,  1>>, <<1,  1>> >>

\* The n-th (0-based) frame of the input stack at InPath; SmallPath holds
\* frames of another box size.
InputFrame(n) == [k \in 1..Len(Pixels) |-> ((n + 2) * k) % 7]
SmallFrame(n) == <<n + 1, n + 2, n + 3, n + 4>>
InputFrames(path) ==
    IF path = InPath THEN MaxN + 1
    ELSE IF path = SmallPath THEN MaxN + 1
    ELSE 0

\* EMData(name, n): raises when the file or the frame does not exist.
EMDataRaises(path, n) == n < 0 \/ n >= InputFrames(path)
EMData(path, n) == IF path = SmallPath THEN SmallFrame(n) ELSE InputFrame(n)

\* ------------------------------------------------- volumes (EMData 3D)
Grid == << <<0, 0, 0>>, <<1, 0, 0>>, <<0, 1, 0>>, <<0, 0, 1>>, <<-1, 0, 0>> >>

\* dens - sub_dens, elementwise
VolMinus(a, b) == [g \in 1..Len(a) |-> a[g] - b[g]]

Vec3Minus(a, b) == <<a[1] - b[1], a[2] - b[2], a[3] - b[3]>>

\* dens.phase_cog()[:3]: the centre of gravity, the first moment over the mass.
phase_cog(vol) ==
    LET mass == SeqSum(vol)
        moment(c) == SeqSum([g \in 1..Len(vol) |-> vol[g] * Grid[g][c]])
    IN IF mass = 0 THEN <<0, 0, 0>>
       ELSE <<moment(1) \div mass, moment(2) \div mass, moment(3) \div mass>>

\* ------------------------------------------------------- Transform
RotZ(v) == <<0 - v[2], v[1], v[3]>>
RotY(v) == <<v[3], v[2], 0 - v[1]>>

RECURSIVE Turn(_, _, _)
Turn(axis, n, v) ==
    IF n = 0 THEN v
    ELSE Turn(axis, n - 1, IF axis = "z" THEN RotZ(v) ELSE RotY(v))

Quarter(deg) == (deg \div 90) % 4

\* t = Transform(); t.set_rotation({'psi':, 'phi':, 'theta':, 'type': 'spider'})
\* t.set_trans(tx, ty)
Transform(psi, phi, theta, tx, ty) ==
    [psi |-> psi, phi |-> phi, theta |-> theta, tx |-> tx, ty |-> ty]

\* The rotation part of t applied to a vector (spider: Rz(psi) Ry(theta) Rz(phi)).
Rotate(t, v) ==
    Turn("z", Quarter(t.psi), Turn("y", Quarter(t.theta), Turn("z", Quarter(t.phi), v)))

\* t.transform(v): rotation, then translation
transform(t, v) ==
    LET r == Rotate(t, v) IN <<r[1] + t.tx, r[2] + t.ty, r[3]>>

\* A volume holds the values at the first Len(vol) points of Grid, so volumes
\* of unequal length have unequal grid dimensions.  The box of a projection
\* follows the volume's: a volume over the whole of Grid projects onto
\* WidePixels, a smaller one onto Pixels.
WidePixels == Pixels \o << <<-2, 0>>, <<2, 0>> >>
ProjPixels(dens) == IF Len(dens) >= Len(Grid) THEN WidePixels ELSE Pixels

\* dens.project("standard", t): each voxel lands on the pixel under its
\* transformed position; the projection sums along z.
project(dens, t) ==
    LET px == ProjPixels(dens)
    IN [k \in 1..Len(px) |->
          SeqSum([g \in 1..Len(dens) |->
              LET q == transform(t, Grid[g])
              IN IF <<q[1], q[2]>> = px[k] THEN dens[g] ELSE 0])]

\* generate_ctf(ctf_params) and filt_ctf(proj, ctf): the descriptor keeps the
\* parameter list; the filter is linear in the image, its gain set by the
\* defocus, the astigmatism and the amplitude contrast.
generate_ctf(ctf_params) == ctf_params
CtfGain(ctf) == 1 + ctf[1] + ctf[7] + ctf[6]
filt_ctf(proj, ctf) == [k \in 1..Len(proj) |-> proj[k] * CtfGain(ctf)]

\* --------------------------------------------------------- star table
Headings == <<"rlnImageName", "rlnAngleRot", "rlnAngleTilt", "rlnAnglePsi",
              "rlnOriginX", "rlnOriginY", "rlnDefocusU", "rlnDefocusV",
              "rlnDefocusAngle", "rlnDetectorPixelSize", "rlnMagnification",
              "rlnVoltage", "rlnSphericalAberration", "rlnAmplitudeContrast">>

Keys == {Headings[k] : k \in 1..Len(Headings)}

\* len(star['rlnImageName'])
NPart(tab) == Len(tab["rlnImageName"])

\* star[key][i] (i is 0-based)
Get(tab, key, i) == tab[key][i + 1]

\* star[key][i] = v, on the pair [star, log]; log records the writes made.
SetItem(T, key, i, v) ==
    [star |-> [T.star EXCEPT ![key][i + 1] = v],
     log |-> Append(T.log, <<key, i>>)]

\* ------------------------------------------------------------ MetaData
MetaDataBug(tab, i) ==
    LET U == Get(tab, "rlnDefocusU", i)
        V == Get(tab, "rlnDefocusV", i)
        defocus == (U + V) \div 20000
        dfdiff == (U - V) \div 10000
        dfang == 90 - Get(tab, "rlnDefocusAngle", i)
        apix == (10000 * Get(tab, "rlnDetectorPixelSize", i))
                    \div Get(tab, "rlnMagnification", i)
        voltage == Get(tab, "rlnVoltage", i)
        cs == Get(tab, "rlnSphericalAberration", i)
        ac == Get(tab, "rlnAmplitudeContrast", i) * 100
    IN [i |-> 0,
        phi |-> Get(tab, "rlnAngleRot", i),
        psi |-> Get(tab, "rlnAnglePsi", i),
        theta |-> Get(tab, "rlnAngleTilt", i),
        x_origin |-> Get(tab, "rlnOriginX", i),
        y_origin |-> Get(tab, "rlnOriginY", i),
        defocus |-> defocus, dfdiff |-> dfdiff, dfang |-> dfang, apix |-> apix,
        voltage |-> voltage, cs |-> cs, ac |-> ac, bfactor |-> 0,
        ctf_params |-> <<defocus, cs, voltage, apix, 0, ac, dfdiff, dfang>>]

\* MetaData.__init__(self, star, i)
MetaData(tab, i) ==
    LET U == Get(tab, "rlnDefocusU", i)
        V == Get(tab, "rlnDefocusV", i)
        defocus == (U + V) \div 20000
        dfdiff == (U - V) \div 10000
        dfang == 90 - Get(tab, "rlnDefocusAngle", i)
        apix == (10000 * Get(tab, "rlnDetectorPixelSize", i))
                    \div Get(tab, "rlnMagnification", i)
        voltage == Get(tab, "rlnVoltage", i)
        cs == Get(tab, "rlnSphericalAberration", i)
        ac == Get(tab, "rlnAmplitudeContrast", i) * 100
        bfactor == 0
    IN [i |-> i,
        phi |-> Get(tab, "rlnAngleRot", i),
        psi |-> Get(tab, "rlnAnglePsi", i),
        theta |-> Get(tab, "rlnAngleTilt", i),
        x_origin |-> Get(tab, "rlnOriginX", i),
        y_origin |-> Get(tab, "rlnOriginY", i),
        defocus |-> defocus, dfdiff |-> dfdiff, dfang |-> dfang, apix |-> apix,
        voltage |-> voltage, cs |-> cs, ac |-> ac, bfactor |-> bfactor,
        ctf_params |-> <<defocus, cs, voltage, apix, bfactor, ac, dfdiff, dfang>>]

updateBug(meta, T) ==
    SetItem(SetItem(T, "rlnOriginX", meta.i, meta.x_origin),
            "rlnAnglePsi", meta.i, meta.y_origin)

updateAhead(meta, T) ==
    LET j == IF meta.i + 1 < NPart(T.star) THEN meta.i + 1 ELSE meta.i
    IN SetItem(SetItem(SetItem(SetItem(T, "rlnOriginX", meta.i, meta.x_origin),
                               "rlnOriginY", meta.i, meta.y_origin),
                       "rlnOriginX", j, meta.x_origin),
               "rlnOriginY", j, meta.y_origin)

\* MetaData.update(self, star)
update(meta, T) ==
    SetItem(SetItem(T, "rlnOriginX", meta.i, meta.x_origin),
            "rlnOriginY", meta.i, meta.y_origin)

\* ----------------------------------------------------------- particles
\* One step of the generator particles(star) at row i: lines 133-136.
ParticleRaises(tab, i) ==
    LET name == Get(tab, "rlnImageName", i)
    IN IF IntRaises(name[1]) \/ Len(name) < 2
       THEN TRUE
       ELSE EMDataRaises(name[2], IntOf(name[1]) - 1)

Particle(tab, i) ==
    LET name == Get(tab, "rlnImageName", i)
        ptcl_n == IntOf(name[1]) - 1
        ptcl_name == name[2]
    IN [ptcl |-> EMData(ptcl_name, ptcl_n), meta |-> MetaData(tab, i)]

\* ------------------------------------------------------------ make_proj
make_proj(dens, meta) ==
    LET t == Transform(meta.psi, meta.phi, meta.theta,
                       0 - meta.x_origin, 0 - meta.y_origin)
        proj == project(dens, t)
        ctf == generate_ctf(meta.ctf_params)
    IN filt_ctf(proj, ctf)

\* ------------------------------------------------------------- subtract
\* a - b on images (EMData.__sub__), elementwise; raises on unequal sizes.
ImgMinus(a, b) == [k \in 1..Len(a) |-> a[k] - b[k]]

Radius(k) ==
    LET ax == IF Pixels[k][1] < 0 THEN 0 - Pixels[k][1] ELSE Pixels[k][1]
        ay == IF Pixels[k][2] < 0 THEN 0 - Pixels[k][2] ELSE Pixels[k][2]
    IN ax + ay

\* ptcl.process("math.sub.optimal", {ref, actual, low_cutoff_frequency,
\* high_cutoff_frequency}): actual is scaled by the fit of ref to the image
\* over the band [low, high], then subtracted.
SubOptimal(ptcl, ref, actual, low, high) ==
    LET band == {k \in 1..Len(ptcl) : low <= Radius(k) /\ Radius(k) <= high}
        num == SeqSum([k \in 1..Len(ptcl) |-> IF k \in band THEN ptcl[k] * ref[k] ELSE 0])
        den == SeqSum([k \in 1..Len(ptcl) |-> IF k \in band THEN ref[k] * ref[k] ELSE 0])
        scale == IF den = 0 THEN 1 ELSE num \div den
    IN [k \in 1..Len(ptcl) |-> ptcl[k] - scale * actual[k]]

\* img.process("normalize"): the mean is removed.
Normalize(img) ==
    LET mean == SeqSum(img) \div Len(img)
    IN [k \in 1..Len(img) |-> img[k] - mean]

\* subtract raises when the images it combines differ in box: the particle
\* and the sub-map projection at line 157, the particle and both projections
\* in the processor of lines 159-161.  A projection that is not combined with
\* anything (the whole map's at line 157) is not looked at.
SubtractRaises(particle, dens, sub_dens, no_frc) ==
    LET box == Len(particle.ptcl)
    IN IF no_frc
       THEN box # Len(ProjPixels(sub_dens))
       ELSE box # Len(ProjPixels(dens)) \/ box # Len(ProjPixels(sub_dens))

Result(ptcl, meta, ctfproj, ctfproj_sub, ptcl_sub, ptcl_norm_sub) ==
    [ptcl |-> ptcl, meta |-> meta, ctfproj |-> ctfproj, ctfproj_sub |-> ctfproj_sub,
     ptcl_sub |-> ptcl_sub, ptcl_norm_sub |-> ptcl_norm_sub]

RawSubtractBug(ptcl, ctfproj, ctfproj_sub, no_frc, low_cutoff, high_cutoff) ==
    IF no_frc
    THEN ImgMinus(ptcl, ctfproj)
    ELSE SubOptimal(ptcl, ctfproj, ctfproj_sub, low_cutoff, high_cutoff)

\* lines 156-161
RawSubtract(ptcl, ctfproj, ctfproj_sub, no_frc, low_cutoff, high_cutoff) ==
    IF no_frc
    THEN ImgMinus(ptcl, ctfproj_sub)
    ELSE SubOptimal(ptcl, ctfproj, ctfproj_sub, low_cutoff, high_cutoff)

RecenterMetaTwice(meta, recenter) ==
    IF recenter # <<>>
    THEN LET t == Transform(meta.psi, meta.phi, meta.theta, 0, 0)
             shift == transform(t, recenter)
         IN [meta EXCEPT !.x_origin = @ + 2 * shift[1], !.y_origin = @ + 2 * shift[2]]
    ELSE meta

RecenterMetaBug(meta, recenter) ==
    LET t == Transform(meta.psi, meta.phi, meta.theta, 0, 0)
        shift == IF recenter # <<>> THEN transform(t, recenter) ELSE <<1, 1, 0>>
    IN [meta EXCEPT !.x_origin = @ + shift[1], !.y_origin = @ + shift[2]]

\* lines 165-172
RecenterMeta(meta, recenter) ==
    IF recenter # <<>>
    THEN LET t == Transform(meta.psi, meta.phi, meta.theta, 0, 0)
             shift == transform(t, recenter)
         IN [meta EXCEPT !.x_origin = @ + shift[1], !.y_origin = @ + shift[2]]
    ELSE meta

subtractBug(particle, dens, sub_dens, recenter, no_frc, low_cutoff, high_cutoff) ==
    LET ptcl == particle.ptcl
        meta == RecenterMeta(particle.meta, recenter)
        ctfproj == make_proj(dens, particle.meta)
        ctfproj_sub == make_proj(sub_dens, meta)
        ptcl_sub == RawSubtract(ptcl, ctfproj, ctfproj_sub, no_frc, low_cutoff, high_cutoff)
        ptcl_norm_sub == Normalize(ptcl_sub)
    IN Result(ptcl, meta, ctfproj, ctfproj_sub, ptcl_sub, ptcl_norm_sub)

\* lines 152-174
subtract(particle, dens, sub_dens, recenter, no_frc, low_cutoff, high_cutoff) ==
    LET ptcl == particle.ptcl
        meta == particle.meta
        ctfproj == make_proj(dens, meta)
        ctfproj_sub == make_proj(sub_dens, meta)
        ptcl_sub == RawSubtract(ptcl, ctfproj, ctfproj_sub, no_frc, low_cutoff, high_cutoff)
        ptcl_norm_sub == Normalize(ptcl_sub)
    IN Result(ptcl, RecenterMeta(meta, recenter), ctfproj, ctfproj_sub,
              ptcl_sub, ptcl_norm_sub)

\* ------------------------------------------------------- output stacks
\* os.path.exists / os.remove / EMData.append_image on the files on disk,
\* a function from the paths of the existing files to their images.
Remove(d, p) == [q \in (DOMAIN d) \ {p} |-> d[q]]

append_image(d, p, img) ==
    [q \in (DOMAIN d) \cup {p} |->
        IF q = p
        THEN (IF p \in DOMAIN d THEN Append(d[p], img) ELSE <<img>>)
        ELSE d[q]]

NewStackBug(i, maxpart) == i % (maxpart + 1) = 0

\* line 81: if i % options.maxpart == 0
NewStack(i, maxpart) == i % maxpart = 0

OpenStackBug(d, mrcs, mrcs_orig) == d

\* lines 88-91
OpenStack(d, mrcs, mrcs_orig) == Remove(Remove(d, mrcs), mrcs_orig)

\* line 110: i % options.maxpart + 1
LocalIndex(i, maxpart) == (i % maxpart) + 1

\* line 112: the fields of row i in the order of the headings
Line(tab, i) == [k \in 1..Len(Headings) |-> Get(tab, Headings[k], i)]

\* ---------------------------------------------------------- pool.imap
\* line 69: chunksize=min(npart / options.nproc, 1000), Python 2 division
ChunkSize(npart, nproc) == Min(npart \div nproc, MaxChunk)

NextJobBug(c, index) ==
    IF DOMAIN c = {} THEN index
    ELSE CHOOSE j \in DOMAIN c : \A k \in DOMAIN c : k <= j

\* The job the ordered iterator hands out next: imap yields in task order.
NextJob(c, index) == index

\* --------------------------------------------------------------- state
VARIABLES
    options,      \* the parsed command line
    input,        \* the table as read from options.input
    star,         \* the StarFile object
    log,          \* the writes made to star, in order
    dens, sub_dens, recenter,
    disk,         \* the image stack files
    output_star,  \* the output table: [lines, closed]
    pc,           \* main: "start", "loop", "done" (returned 0), "error" (raised)
    err,          \* what main raised: "", "volumes", "chunksize", "particle", "assert"
    i, nfile, starpath, mrcs, mrcs_orig,
    consumed,     \* the results the write loop has taken, in order
    gen,          \* particles(star): the row the generator reads next
    pool,         \* "none", "open", "joined"
    handler,      \* the pool's task feeder: "idle", "run", "done", "dead"
    batch,        \* the particles of the chunk being gathered
    fed,          \* chunks put on the task queue
    length,       \* the iterator's length once known, else -1
    taskqueue, running, cache,
    chunk,        \* the rest of the chunk main is unpacking
    index         \* the iterator's next job

vars == <<options, input, star, log, dens, sub_dens, recenter, disk, output_star,
          pc, err, i, nfile, starpath, mrcs, mrcs_orig, consumed, gen, pool,
          handler, batch, fed, length, taskqueue, running, cache, chunk, index>>

writer == <<star, log, disk, output_star, i, nfile, starpath, mrcs, mrcs_orig, consumed>>
feeder == <<handler, batch, fed, length, taskqueue>>

\* -------------------------------------------------------------- inputs
RowOf(j, v) ==
    [rlnImageName |-> <<Format06d(j + 1), InPath>>,
     rlnAngleRot |-> v.rot, rlnAngleTilt |-> v.tilt, rlnAnglePsi |-> v.psi,
     rlnOriginX |-> v.x, rlnOriginY |-> v.y,
     rlnDefocusU |-> v.U, rlnDefocusV |-> 10000, rlnDefocusAngle |-> 90,
     rlnDetectorPixelSize |-> 5, rlnMagnification |-> 50000,
     rlnVoltage |-> 300, rlnSphericalAberration |-> 2, rlnAmplitudeContrast |-> 0]

Variant(rot, tilt, psi, x, y, U) ==
    [rot |-> rot, tilt |-> tilt, psi |-> psi, x |-> x, y |-> y, U |-> U]

BaseVariant(j) ==
    Variant(90 * (j % 4), 90 * ((j \div 2) % 2), 90 * ((j + 1) % 4),
            (j % 3) - 1, j % 2, 10000 * (1 + 2 * (j % 2)))

RowVariants ==
    {Variant(0, 0, 0, 0, 0, 10000), Variant(90, 0, 180, 1, 0, 30000),
     Variant(270, 90, 90, -1, 1, 30000)}

MakeTable(rows) == [key \in Keys |-> [k \in 1..Len(rows) |-> rows[k][key]]]

Faults == {"noat", "nan", "size"}

\* Row k with an image reference that cannot be loaded or processed.
Damage(tab, k, kind) ==
    [tab EXCEPT !["rlnImageName"][k + 1] =
        IF kind = "noat" THEN <<Format06d(k + 1)>>
        ELSE IF kind = "nan" THEN << <<"x">>, InPath >>
        ELSE <<Format06d(k + 1), SmallPath>>]

BaseTable(n) == MakeTable([j \in 1..n |-> RowOf(j - 1, BaseVariant(j - 1))])

SchedTables ==
    UNION {{BaseTable(n)} \cup {Damage(BaseTable(n), k, kind) : k \in 0..(n - 1), kind \in Faults}
           : n \in 0..MaxN}

SerialTables ==
    UNION {{MakeTable([j \in 1..n |-> RowOf(j - 1, f[j])]) : f \in [1..n -> RowVariants]}
           : n \in 0..MaxSerialN}

Opts(output, suffix, nproc, maxpart, rec, original, no_frc, low, high) ==
    [output |-> output, suffix |-> suffix, nproc |-> nproc, maxpart |-> maxpart,
     recenter |-> rec, original |-> original, no_frc |-> no_frc,
     low_cutoff |-> low, high_cutoff |-> high]

\* --output / suffix pairs
PathCases ==
    { << <<Comp("a", 0, ".star")>>, <<Comp("s", 0, ".mrcs")>> >>,
      << <<Dir("d"), Comp("a", 0, "")>>, <<Comp("s", 0, "")>> >>,
      << <<Comp("a", 0, "")>>, <<Dir("d"), Comp("s", 0, ".mrc")>> >>,
      << <<Comp("a", 0, "")>>, <<Dir("a"), Comp("s", 0, "")>> >> }

DefaultPaths == << <<Comp("a", 0, ".star")>>, <<Comp("s", 0, ".mrcs")>> >>

Cutoffs == {<<0, 1>>, <<1, 2>>}

Whole == <<0, 1, 1, 0>>
VolumePairs == {<<Whole, <<0, 1, 0, 0>> >>, << <<1, 0, 2, 1>>, <<0, 0, 0, 0>> >>}

\* Whole and sub volumes for the runs over the volumes: the pairs above, a
\* whole map with its centre of gravity off the origin beside an all-zero sub
\* map, and two pairs of unequal grid dimensions (either one the larger).
OffCentre == <<0, 0, 2, 0>>
ShapePairs ==
    VolumePairs \cup
    { <<OffCentre, <<0, 0, 0, 0>> >>,
      << <<0, 1, 1, 0, 1>>, <<0, 1, 0, 0>> >>,
      <<Whole, <<0, 1, 0, 0, 1>> >> }

StaleImage == [k \in 1..Len(Pixels) |-> 9]
StaleStack == <<StaleImage, StaleImage, StaleImage>>

\* Files left at the stack paths by an earlier run.
Stale(suffix) ==
    LET sfx == rchop(rchop(suffix, ".mrc"), ".mrcs")
        paths == {MrcsPath(sfx, n) : n \in 1..2} \cup {MrcsOrigPath(sfx, n) : n \in 1..2}
    IN [p \in paths |-> StaleStack]

NoFiles == [p \in {} |-> <<>>]

\* The runs explored: the scheduling inputs (any worker count, stack size and
\* table length up to MaxN, one row possibly damaged, fixed numerics), and the
\* numeric inputs (one worker, tables up to MaxSerialN rows over RowVariants,
\* with the volumes, the modes, the cutoffs and the paths varied), and the
\* runs over the volumes (any worker count, tables up to MaxVolN rows, with
\* and without recentering, both modes, volumes of equal and unequal grids).
InitSched ==
    /\ \E nproc \in 1..MaxProc, maxpart \in 1..MaxPart, original \in BOOLEAN :
          options = Opts(DefaultPaths[1], DefaultPaths[2], nproc, maxpart, FALSE, original,
                         FALSE, 0, 1)
    /\ input \in SchedTables
    /\ dens = Whole /\ sub_dens = <<0, 1, 0, 0>>
    /\ disk \in {NoFiles, Stale(DefaultPaths[2])}

InitSerial ==
    /\ \E pp \in PathCases, maxpart \in 1..MaxPart, rec \in BOOLEAN, no_frc \in BOOLEAN,
          cut \in Cutoffs :
          /\ options = Opts(pp[1], pp[2], 1, maxpart, rec, FALSE, no_frc, cut[1], cut[2])
          /\ disk \in {NoFiles, Stale(pp[2])}
    /\ input \in SerialTables
    /\ \E vp \in VolumePairs : dens = vp[1] /\ sub_dens = vp[2]

InitVolumes ==
    /\ \E nproc \in 1..MaxProc, rec \in BOOLEAN, no_frc \in BOOLEAN :
          options = Opts(DefaultPaths[1], DefaultPaths[2], nproc, 1, rec, FALSE,
                         no_frc, 0, 1)
    /\ \E n \in 0..MaxVolN : input = BaseTable(n)
    /\ \E vp \in ShapePairs : dens = vp[1] /\ sub_dens = vp[2]
    /\ disk = NoFiles

Init ==
    /\ (InitSched \/ InitSerial \/ InitVolumes)
    /\ star = input
    /\ log = <<>>
    /\ recenter = <<>>
    /\ output_star = [lines |-> <<>>, closed |-> FALSE]
    /\ pc = "start" /\ err = ""
    /\ i = 0 /\ nfile = 1 /\ starpath = <<>> /\ mrcs = <<>> /\ mrcs_orig = <<>>
    /\ consumed = <<>>
    /\ gen = 0
    /\ pool = "none"
    /\ handler = "idle" /\ batch = <<>> /\ fed = 0 /\ length = -1
    /\ taskqueue = <<>> /\ running = {} /\ cache = [j \in {} |-> <<>>]
    /\ chunk = <<>> /\ index = 0

\* ---------------------------------------------------------------- main
npart == NPart(star)
parallel == options.nproc > 1

\* The task handed to the serial generator and to the pool (lines 66-72).
Task(x) ==
    subtract(x, dens, sub_dens, recenter, options.no_frc,
             options.low_cutoff, options.high_cutoff)

TaskRaises(x) == SubtractRaises(x, dens, sub_dens, options.no_frc)

\* lines 35-60: the options are trimmed, the recenter vector is computed
Trimmed ==
    [options EXCEPT !.output = rchop(@, ".star"),
                    !.suffix = rchop(rchop(@, ".mrc"), ".mrcs")]

RecenterVectorBug ==
    IF options.recenter
    THEN Vec3Minus(phase_cog(dens), phase_cog(sub_dens))
    ELSE <<>>

\* lines 55-60
RecenterVector ==
    IF options.recenter
    THEN Vec3Minus(phase_cog(dens), phase_cog(VolMinus(dens, sub_dens)))
    ELSE <<>>

\* line 56: dens - sub_dens raises on volumes of unequal dimensions; the
\* line runs only with --recenter.
VolMinusRaises == options.recenter /\ Len(dens) # Len(sub_dens)

\* lines 35-58 when the volume difference raises: the output table is open
\* and holds its header, no pool has been made
RecenterRaise ==
    /\ pc = "start"
    /\ VolMinusRaises
    /\ options' = Trimmed
    /\ pc' = "error" /\ err' = "volumes"
    /\ UNCHANGED <<input, dens, sub_dens, recenter, writer, gen, pool, feeder,
                   running, cache, chunk, index>>

\* lines 35-79 when the results iterator is built
Setup ==
    /\ pc = "start"
    /\ ~VolMinusRaises
    /\ ~parallel \/ ChunkSize(npart, options.nproc) >= 1
    /\ options' = Trimmed
    /\ recenter' = RecenterVector
    /\ pool' = IF parallel THEN "open" ELSE "none"
    /\ handler' = IF parallel THEN "run" ELSE "idle"
    /\ pc' = "loop"
    /\ UNCHANGED <<input, dens, sub_dens, err, writer, gen, batch, fed, length,
                   taskqueue, running, cache, chunk, index>>

\* lines 63-69 when pool.imap rejects the chunk size (it accepts 1 and more)
SetupRaise ==
    /\ pc = "start"
    /\ ~VolMinusRaises
    /\ parallel /\ ChunkSize(npart, options.nproc) < 1
    /\ options' = Trimmed
    /\ recenter' = RecenterVector
    /\ pool' = "open"
    /\ pc' = "error" /\ err' = "chunksize"
    /\ UNCHANGED <<input, dens, sub_dens, writer, gen, feeder, running, cache, chunk, index>>

AppendImagesBug(d, mrcs1, mrcs_orig1, r) ==
    append_image(append_image(d, mrcs1, r.ptcl_norm_sub), mrcs_orig1, r.ptcl_norm_sub)

\* lines 93-96
AppendImages(d, mrcs1, mrcs_orig1, r) ==
    LET d2 == append_image(d, mrcs1, r.ptcl_norm_sub)
    IN IF options.original THEN append_image(d2, mrcs_orig1, r.ptcl) ELSE d2

\* lines 80-114: one pass of the write loop over the result r, on the writer's
\* state w.  The debug output (lines 98-107) goes to files of its own and is
\* left out.  failed: the assertion of line 109 did not hold.
Write(w, r) ==
    LET rot == NewStack(w.i, options.maxpart)
        nfile1 == IF rot THEN w.nfile + 1 ELSE w.nfile
        starpath1 == IF rot THEN StarPath(options.output, options.suffix, w.nfile)
                     ELSE w.starpath
        mrcs1 == IF rot THEN MrcsPath(options.suffix, w.nfile) ELSE w.mrcs
        mrcs_orig1 == IF rot THEN MrcsOrigPath(options.suffix, w.nfile) ELSE w.mrcs_orig
        disk1 == IF rot THEN OpenStack(w.disk, mrcs1, mrcs_orig1) ELSE w.disk
        disk3 == AppendImages(disk1, mrcs1, mrcs_orig1, r)
        T1 == SetItem([star |-> w.star, log |-> w.log], "rlnImageName", w.i,
                      ImageName(LocalIndex(w.i, options.maxpart), starpath1))
        T2 == update(r.meta, T1)
        asserted == r.meta.i = w.i
    IN [star |-> IF asserted THEN T2.star ELSE w.star,
        log |-> IF asserted THEN T2.log ELSE w.log,
        disk |-> disk3,
        lines |-> IF asserted THEN Append(w.lines, Line(T2.star, w.i)) ELSE w.lines,
        i |-> IF asserted THEN w.i + 1 ELSE w.i,
        nfile |-> nfile1, starpath |-> starpath1, mrcs |-> mrcs1, mrcs_orig |-> mrcs_orig1,
        failed |-> ~asserted]

Writer ==
    [star |-> star, log |-> log, disk |-> disk, lines |-> output_star.lines, i |-> i,
     nfile |-> nfile, starpath |-> starpath, mrcs |-> mrcs, mrcs_orig |-> mrcs_orig,
     failed |-> FALSE]

LoopBody(r) ==
    LET w == Write(Writer, r)
    IN /\ star' = w.star /\ log' = w.log /\ disk' = w.disk
       /\ output_star' = [output_star EXCEPT !.lines = w.lines]
       /\ i' = w.i /\ nfile' = w.nfile /\ starpath' = w.starpath
       /\ mrcs' = w.mrcs /\ mrcs_orig' = w.mrcs_orig
       /\ consumed' = Append(consumed, r)
       /\ IF w.failed
          THEN pc' = "error" /\ err' = "assert"
          ELSE UNCHANGED <<pc, err>>

\* nproc = 1: the generator has a next particle and the task succeeds on it
SerialReady ==
    /\ pc = "loop" /\ ~parallel
    /\ gen < npart
    /\ ~ParticleRaises(star, gen)
    /\ ~TaskRaises(Particle(star, gen))

\* nproc = 1: the generator expression yields the next result, the loop writes it
SerialStep ==
    /\ SerialReady
    /\ gen' = gen + 1
    /\ LoopBody(Task(Particle(star, gen)))
    /\ UNCHANGED <<options, input, dens, sub_dens, recenter, pool, feeder,
                   running, cache, chunk, index>>

\* nproc = 1: particles() or subtract() raises inside the for statement
SerialRaise ==
    /\ pc = "loop" /\ ~parallel
    /\ gen < npart
    /\ IF ParticleRaises(star, gen) THEN TRUE ELSE TaskRaises(Particle(star, gen))
    /\ pc' = "error" /\ err' = "particle"
    /\ UNCHANGED <<options, input, dens, sub_dens, recenter, writer, gen, pool,
                   feeder, running, cache, chunk, index>>

\* The pool's task feeder draws one particle from particles(star); a full
\* chunk, or the last one, goes to the task queue.
Produce ==
    /\ pc = "loop" /\ handler = "run"
    /\ gen < npart
    /\ ~ParticleRaises(star, gen)
    /\ gen' = gen + 1
    /\ LET b == Append(batch, Particle(star, gen))
       IN IF Len(b) = ChunkSize(npart, options.nproc) \/ gen + 1 = npart
          THEN /\ taskqueue' = Append(taskqueue, [idx |-> fed, items |-> b, raises |-> FALSE])
               /\ fed' = fed + 1
               /\ batch' = <<>>
          ELSE /\ batch' = b
               /\ UNCHANGED <<taskqueue, fed>>
    /\ UNCHANGED <<options, input, dens, sub_dens, recenter, writer, pc, err, pool,
                   handler, length, running, cache, chunk, index>>

\* The generator is exhausted: the feeder tells the iterator its length.
ProduceEnd ==
    /\ pc = "loop" /\ handler = "run"
    /\ gen = npart
    /\ handler' = "done"
    /\ length' = fed
    /\ UNCHANGED <<options, input, dens, sub_dens, recenter, writer, pc, err, gen, pool,
                   batch, fed, taskqueue, running, cache, chunk, index>>

\* particles() raises in the feeder, and the pool passes the exception on as
\* the outcome of the chunk being gathered.
ProduceRaise ==
    /\ pc = "loop" /\ handler = "run"
    /\ gen < npart
    /\ ParticleRaises(star, gen)
    /\ taskqueue' = Append(taskqueue, [idx |-> fed, items |-> <<>>, raises |-> TRUE])
    /\ fed' = fed + 1
    /\ batch' = <<>>
    /\ length' = fed + 1
    /\ handler' = "done"
    /\ UNCHANGED <<options, input, dens, sub_dens, recenter, writer, pc, err, gen, pool,
                   running, cache, chunk, index>>

\* particles() raises in the feeder, and the feeder thread ends with the
\* exception: nothing is passed on, the iterator's length stays unknown.
ProduceLost ==
    /\ pc = "loop" /\ handler = "run"
    /\ gen < npart
    /\ ParticleRaises(star, gen)
    /\ batch' = <<>>
    /\ handler' = "dead"
    /\ UNCHANGED <<options, input, dens, sub_dens, recenter, writer, pc, err, gen, pool,
                   fed, length, taskqueue, running, cache, chunk, index>>

\* A free worker takes the oldest task.
WorkerTake ==
    /\ pc = "loop"
    /\ taskqueue # <<>>
    /\ Cardinality(running) < options.nproc
    /\ running' = running \cup {Head(taskqueue)}
    /\ taskqueue' = Tail(taskqueue)
    /\ UNCHANGED <<options, input, dens, sub_dens, recenter, writer, pc, err, gen, pool,
                   handler, batch, fed, length, cache, chunk, index>>

\* The outcome of a chunk: the results in order, or the exception raised.
Outcome(t) ==
    IF t.raises \/ \E k \in 1..Len(t.items) : TaskRaises(t.items[k])
    THEN [ok |-> FALSE, items |-> <<>>]
    ELSE [ok |-> TRUE, items |-> [k \in 1..Len(t.items) |-> Task(t.items[k])]]

\* A worker finishes its chunk, in any order among the workers.
WorkerFinish ==
    /\ pc = "loop"
    /\ \E t \in running :
          /\ running' = running \ {t}
          /\ cache' = [j \in (DOMAIN cache) \cup {t.idx} |->
                          IF j = t.idx THEN Outcome(t) ELSE cache[j]]
    /\ UNCHANGED <<options, input, dens, sub_dens, recenter, writer, pc, err, gen, pool,
                   feeder, chunk, index>>

\* nproc > 1: the ordered iterator has a result to hand out
ParallelReady ==
    /\ pc = "loop" /\ parallel
    /\ LET j == NextJob(cache, index)
       IN chunk # <<>> \/ (j \in DOMAIN cache /\ cache[j].ok)

\* nproc > 1: main takes the next result of the ordered iterator and writes it
ParallelStep ==
    /\ ParallelReady
    /\ LET j == NextJob(cache, index)
       IN /\ LET items == IF chunk # <<>> THEN chunk ELSE cache[j].items
             IN /\ chunk' = Tail(items)
                /\ LoopBody(Head(items))
          /\ IF chunk = <<>>
             THEN /\ index' = index + 1
                  /\ cache' = [k \in (DOMAIN cache) \ {j} |-> cache[k]]
             ELSE UNCHANGED <<index, cache>>
    /\ UNCHANGED <<options, input, dens, sub_dens, recenter, gen, pool, feeder, running>>

\* nproc > 1: the next job of the iterator is an exception, raised in main
ParallelRaise ==
    /\ pc = "loop" /\ parallel
    /\ chunk = <<>>
    /\ LET j == NextJob(cache, index)
       IN j \in DOMAIN cache /\ ~cache[j].ok
    /\ pc' = "error" /\ err' = "particle"
    /\ UNCHANGED <<options, input, dens, sub_dens, recenter, writer, gen, pool,
                   feeder, running, cache, chunk, index>>

\* lines 116-122: the results are exhausted
Finish ==
    /\ pc = "loop"
    /\ IF parallel THEN chunk = <<>> /\ length = index ELSE gen = npart
    /\ output_star' = [output_star EXCEPT !.closed = TRUE]
    /\ pool' = IF pool = "open" THEN "joined" ELSE pool
    /\ pc' = "done"
    /\ UNCHANGED <<options, input, star, log, dens, sub_dens, recenter, disk, err,
                   i, nfile, starpath, mrcs, mrcs_orig, consumed, gen,
                   feeder, running, cache, chunk, index>>

Next ==
    \/ Setup \/ RecenterRaise \/ SetupRaise
    \/ SerialStep \/ SerialRaise
    \/ Produce \/ ProduceEnd \/ ProduceRaise \/ ProduceLost
    \/ WorkerTake \/ WorkerFinish
    \/ ParallelStep \/ ParallelRaise
    \/ Finish

Spec == Init /\ [][Next]_vars

\* Scheduling: main runs on while it can take a step, and so do the pool's
\* task feeder thread and its worker processes.  The write step and the end
\* of a worker's chunk are named by their guard and by the one variable only
\* they change (i is advanced by SerialStep and ParallelStep alone, running
\* is reduced by WorkerFinish alone), which is weak fairness of those actions.
FairSpec ==
    /\ Spec
    /\ WF_vars(Setup \/ RecenterRaise \/ SetupRaise
                  \/ SerialRaise \/ ParallelRaise \/ Finish)
    /\ WF_i((SerialReady \/ ParallelReady) /\ i' = i + 1)
    /\ WF_vars(Produce \/ ProduceEnd \/ ProduceRaise \/ ProduceLost)
    /\ WF_vars(WorkerTake)
    /\ WF_running(pc = "loop" /\ \E t \in running : running' = running \ {t})

\* =============================================================== claims
N == NPart(input)
Lines == output_star.lines
Col(key) == CHOOSE c \in 1..Len(Headings) : Headings[c] = key
Started == pc # "start"

\* Row k can be neither loaded nor processed.
Faulty(k) ==
    IF ParticleRaises(input, k) THEN TRUE ELSE TaskRaises(Particle(input, k))
HasFault == \E k \in 0..(N - 1) : Faulty(k)
FirstFault == CHOOSE k \in 0..(N - 1) : Faulty(k) /\ \A m \in 0..(k - 1) : ~Faulty(m)

\* The result of the task on the particle of input row k.
Expected(k) == Task(Particle(input, k))

\* The images of the subtracted stacks opened so far, in stack order.
StackImages ==
    Concat([n \in 1..(nfile - 1) |->
               IF MrcsPath(options.suffix, n) \in DOMAIN disk
               THEN disk[MrcsPath(options.suffix, n)] ELSE <<>>])

Ceil(a, b) == (a + b - 1) \div b

\* C1: the k-th row written and the k-th image appended across the stacks
\* come from the k-th input row's particle, whatever the worker count and the
\* order in which the tasks complete; rows are written in index order.
C1_OrderPreserved ==
    Started =>
        /\ Len(Lines) = i
        /\ \A k \in 1..Len(Lines) :
              /\ \A c \in 2..Len(Headings) :
                    Headings[c] \notin {"rlnOriginX", "rlnOriginY"}
                        => Lines[k][c] = Get(input, Headings[c], k - 1)
              /\ LET meta == Expected(k - 1).meta
                 IN /\ Lines[k][Col("rlnOriginX")] = meta.x_origin
                    /\ Lines[k][Col("rlnOriginY")] = meta.y_origin
        /\ \A k \in 1..Len(StackImages) :
              /\ k <= N
              /\ ~Faulty(k - 1)
              /\ StackImages[k] = Expected(k - 1).ptcl_norm_sub

\* A later job has completed while the next one in order is still out, rows
\* having been written already.
C1_Witness ==
    /\ parallel /\ pc = "loop" /\ Len(Lines) >= 1
    /\ index \notin DOMAIN cache
    /\ \E j \in DOMAIN cache : j > index /\ cache[j].ok

\* C2: every stack the run has opened holds at most maxpart images, and a
\* completed run over N particles has produced stacks 1..ceil(N / maxpart),
\* all but possibly the last holding exactly maxpart images.
C2_StackBound ==
    Started =>
        /\ \A n \in 1..(nfile - 1) :
              /\ MrcsPath(options.suffix, n) \in DOMAIN disk
              /\ Len(disk[MrcsPath(options.suffix, n)]) <= options.maxpart
              /\ MrcsOrigPath(options.suffix, n) \in DOMAIN disk
                    => Len(disk[MrcsOrigPath(options.suffix, n)]) <= options.maxpart
        /\ pc = "done" =>
              /\ nfile - 1 = Ceil(N, options.maxpart)
              /\ \A n \in 1..(nfile - 1) :
                    Len(disk[MrcsPath(options.suffix, n)]) =
                        IF n < nfile - 1 THEN options.maxpart
                        ELSE N - (n - 1) * options.maxpart

C2_Witness ==
    /\ pc = "done" /\ nfile - 1 >= 2 /\ N % options.maxpart # 0
    /\ Len(disk[MrcsPath(options.suffix, nfile - 1)]) < options.maxpart

\* dirname of the output table, and a relative path resolved against a directory
Dirname(path) == SubSeq(path, 1, Len(path) - 1)

RECURSIVE normpath(_, _)
normpath(done, rest) ==
    IF rest = <<>> THEN done
    ELSE IF Head(rest) = CURDIR THEN normpath(done, Tail(rest))
    ELSE IF Head(rest) = PARDIR /\ done # <<>> /\ done[Len(done)] # PARDIR
         THEN normpath(SubSeq(done, 1, Len(done) - 1), Tail(rest))
    ELSE normpath(Append(done, Head(rest)), Tail(rest))

Resolve(dir, rel) == normpath(<<>>, dir \o rel)

\* C3: row i's image name is "<local>@<path>", local = (i mod maxpart) + 1 and
\* path the path of stack floor(i / maxpart) + 1 relative to the output table.
C3_ImageName ==
    Started =>
        \A k \in 1..Len(Lines) :
            Lines[k][Col("rlnImageName")] =
                << Format06d(((k - 1) % options.maxpart) + 1),
                   relpath(MrcsPath(options.suffix, ((k - 1) \div options.maxpart) + 1),
                           Dirname(options.output)) >>

\* C4: on completion the image at the position and in the stack that row i's
\* image name refers to is particle i's normalized subtracted image.
C4_ReferentialIntegrity ==
    pc = "done" =>
        \A k \in 1..Len(Lines) :
            LET name == Lines[k][Col("rlnImageName")]
                p == Resolve(Dirname(options.output), name[2])
                n == IntOf(name[1])
            IN /\ p \in DOMAIN disk
               /\ n \in 1..Len(disk[p])
               /\ disk[p][n] = Expected(k - 1).ptcl_norm_sub

\* C5: the record index of the result being written equals the loop's count:
\* the assertion of line 109 never fails.
C5_AssertHolds ==
    /\ err # "assert"
    /\ \A k \in 1..Len(consumed) : consumed[k].meta.i = k - 1

C5_Witness ==
    /\ parallel /\ ChunkSize(npart, options.nproc) > 1
    /\ Len(consumed) >= 3 /\ chunk # <<>>

\* The serial run: the write loop over the generator, from the table as read.
RECURSIVE SerialRun(_, _)
SerialRun(w, k) ==
    IF k >= N \/ w.failed THEN w
    ELSE IF ParticleRaises(w.star, k) THEN w
    ELSE IF TaskRaises(Particle(w.star, k)) THEN w
    ELSE SerialRun(Write(w, Task(Particle(w.star, k))), k + 1)

SerialResult ==
    SerialRun([star |-> input, log |-> <<>>, disk |-> NoFiles, lines |-> <<>>, i |-> 0,
               nfile |-> 1, starpath |-> <<>>, mrcs |-> <<>>, mrcs_orig |-> <<>>,
               failed |-> FALSE], 0)

\* C6: with more than one worker and N >= 1 particles, none failing, the run
\* is scheduled and ends with the rows and the stacks of the serial run.
C6_ParallelEqualsSerial ==
    (parallel /\ N >= 1 /\ ~HasFault) =>
        /\ err # "chunksize"
        /\ pc = "done" =>
              /\ Lines = SerialResult.lines
              /\ \A p \in DOMAIN SerialResult.disk :
                    p \in DOMAIN disk /\ disk[p] = SerialResult.disk[p]

\* Main waits for the next result, and nothing is left that could deliver it.
Hung ==
    /\ pc = "loop" /\ parallel
    /\ handler = "dead"
    /\ taskqueue = <<>> /\ running = {} /\ chunk = <<>>
    /\ NextJob(cache, index) \notin DOMAIN cache

\* C7: when particle k fails, the run ends with an error: it neither returns
\* 0 nor hangs, and no row with index >= k is written.
C7_AbortOnFailure ==
    (Started /\ HasFault) =>
        /\ pc # "done"
        /\ Len(Lines) <= FirstFault
        /\ ~Hung

\* C8: with recentering off, the origin fields of every row written equal the
\* input row's.
C8_RecenterNoop ==
    (Started /\ ~options.recenter) =>
        \A k \in 1..Len(Lines) :
            /\ Lines[k][Col("rlnOriginX")] = Get(input, "rlnOriginX", k - 1)
            /\ Lines[k][Col("rlnOriginY")] = Get(input, "rlnOriginY", k - 1)

C8_Witness ==
    /\ ~options.recenter /\ Len(Lines) >= 1
    /\ Get(input, "rlnOriginX", 0) # 0
    /\ sub_dens # <<0, 0, 0, 0>>

Written == {"rlnImageName", "rlnOriginX", "rlnOriginY"}

\* C9: the run writes the image name and the two origin fields of row i, each
\* once and only after particle i's result is there, and nothing else: every
\* other field of the table and of the rows written keeps its input value.
C9_WriteBackFrame ==
    /\ \A e \in 1..Len(log) :
          /\ log[e][1] \in Written
          /\ log[e][2] < Len(consumed)
          /\ consumed[log[e][2] + 1].meta.i = log[e][2]
    /\ \A e1, e2 \in 1..Len(log) : log[e1] = log[e2] => e1 = e2
    /\ \A k \in 0..(i - 1) : \A key \in Written : \E e \in 1..Len(log) : log[e] = <<key, k>>
    /\ \A key \in Keys \ Written : star[key] = input[key]
    /\ \A key \in Keys : \A k \in i..(N - 1) : Get(star, key, k) = Get(input, key, k)
    /\ \A k \in 1..Len(Lines) : \A c \in 1..Len(Headings) :
          Headings[c] \notin Written => Lines[k][c] = Get(input, Headings[c], k - 1)

C9_Witness ==
    /\ pc = "done" /\ i >= 2 /\ Len(log) = 3 * i
    /\ Get(star, "rlnImageName", 0) # Get(input, "rlnImageName", 0)

\* C10: in direct mode the raw subtracted image is the particle image minus
\* the sub-map projection, pixel by pixel, whatever the whole map and the
\* cutoff frequencies.
C10_DirectMode ==
    options.no_frc =>
        \A k \in 1..Len(consumed) :
            LET r == consumed[k]
                sub_proj == make_proj(sub_dens, MetaData(input, k - 1))
            IN /\ Len(r.ptcl_sub) = Len(r.ptcl)
               /\ \A px \in 1..Len(r.ptcl) : r.ptcl_sub[px] = r.ptcl[px] - sub_proj[px]

C10_Witness ==
    /\ options.no_frc /\ Len(consumed) >= 1
    /\ \E px \in 1..Len(Pixels) : consumed[1].ctfproj_sub[px] # 0
    /\ consumed[1].ctfproj # consumed[1].ctfproj_sub
    /\ options.low_cutoff # 0

\* ------------------------------------------- what holds of C3, C4, C6, C7
\* The parts of the four claims above that the code does keep; each is an
\* invariant of Spec.

\* The table lies in a directory that is no ancestor of the stacks' path
\* (the case lines 84-85 are written for).
OutputApart ==
    LET out == rchop(options.output, ".star")
        sfx == rchop(rchop(options.suffix, ".mrc"), ".mrcs")
    IN CommonPrefixLen(out, sfx) < Len(out)

\* C3, local part: the local index and the stack number of every name written.
C3_LocalIndexAndStack ==
    Started =>
        \A k \in 1..Len(Lines) :
            LET name == Lines[k][Col("rlnImageName")]
            IN /\ name[1] = Format06d(((k - 1) % options.maxpart) + 1)
               /\ OutputApart =>
                     name[2] = relpath(MrcsPath(options.suffix,
                                                ((k - 1) \div options.maxpart) + 1),
                                       Dirname(options.output))

\* C4, with the table's directory apart from the stacks' path.
C4_WhenOutputApart == OutputApart => C4_ReferentialIntegrity

\* C6, for the runs pool.imap accepts (N >= nproc).
C6_WhenScheduled == N >= options.nproc => C6_ParallelEqualsSerial

\* C7, but for the hang: no exit status 0 and no row from the failing one on.
C7_NoRowPastFailure ==
    (Started /\ HasFault) => (pc # "done" /\ Len(Lines) <= FirstFault)

\* ------------------------------------------------------------ C11 .. C18
SameGrid == Len(dens) = Len(sub_dens)

\* No particle fails, and the volumes can be combined.
NoFailure == ~HasFault /\ SameGrid

\* main has returned 0 with every row written once and everything released.
Completed ==
    /\ pc = "done" /\ err = ""
    /\ i = N /\ Len(Lines) = N /\ Len(consumed) = N
    /\ \A k \in 1..N : consumed[k].meta.i = k - 1
    /\ output_star.closed
    /\ pool = (IF parallel THEN "joined" ELSE "none")
    /\ taskqueue = <<>> /\ running = {}

\* C11: a run over N particles none of which fails, under fair scheduling of
\* main, the feeder and the workers, eventually returns 0 with exactly N rows
\* written, each particle once, the output table closed and the pool closed
\* and joined.
C11_Completion == NoFailure ~> Completed

\* C12: when the whole and the sub volume differ in grid dimensions the run
\* fails at startup, in every configuration: no particle is read, no stack is
\* opened, no result is written, and main does not return 0.
C12_ShapeChecked ==
    ~SameGrid =>
        /\ gen = 0 /\ nfile = 1 /\ consumed = <<>>
        /\ pc # "done"

\* The results the writer has put into stack n so far, by field.
StackCount(n) == Min(options.maxpart, i - (n - 1) * options.maxpart)
StackOf(n, field) ==
    [k \in 1..StackCount(n) |-> consumed[(n - 1) * options.maxpart + k][field]]

\* The paths of the stack pairs this run has opened.
Opened == {MrcsPath(options.suffix, n) : n \in 1..(nfile - 1)}
              \cup {MrcsOrigPath(options.suffix, n) : n \in 1..(nfile - 1)}

\* C13: a stack this run has started holds the images of this run only, any
\* file found at its path or at the original stack's path having been deleted
\* before the first append; and no step deletes or shortens a file of a stack
\* pair this run has opened.
C13_DeleteBeforeAppend ==
    /\ [](Started =>
            \A n \in 1..(nfile - 1) :
                /\ MrcsPath(options.suffix, n) \in DOMAIN disk
                /\ disk[MrcsPath(options.suffix, n)] = StackOf(n, "ptcl_norm_sub")
                /\ MrcsOrigPath(options.suffix, n) \in DOMAIN disk
                      => /\ options.original
                         /\ disk[MrcsOrigPath(options.suffix, n)] = StackOf(n, "ptcl"))
    /\ [][\A p \in Opened \cap DOMAIN disk :
              /\ p \in DOMAIN disk'
              /\ Len(disk'[p]) >= Len(disk[p])
              /\ SubSeq(disk'[p], 1, Len(disk[p])) = disk[p]]_vars

\* Stack 1 has been started over an old file, stack 2's old file is still there.
C13_Witness ==
    /\ pc = "loop" /\ nfile = 2 /\ options.original
    /\ MrcsPath(options.suffix, 2) \in DOMAIN disk
    /\ disk[MrcsPath(options.suffix, 2)] = StaleStack
    /\ Len(disk[MrcsPath(options.suffix, 1)]) = 1
    /\ Len(disk[MrcsOrigPath(options.suffix, 1)]) = 1

\* The projection of vol under the orientation, the negated origin and the CTF
\* parameters of input row k.
InputProjection(vol, k) ==
    LET m == MetaData(input, k)
        t == Transform(m.psi, m.phi, m.theta, 0 - m.x_origin, 0 - m.y_origin)
    IN filt_ctf(project(vol, t), generate_ctf(m.ctf_params))

\* C14: in every result the whole-map and the sub-map projection are made
\* with the same orientation, negated origin and CTF parameters, those of the
\* particle's input row; the recentred origin enters neither.
C14_SameParameters ==
    \A k \in 1..Len(consumed) :
        /\ consumed[k].ctfproj = InputProjection(dens, k - 1)
        /\ consumed[k].ctfproj_sub = InputProjection(sub_dens, k - 1)

C14_Witness ==
    /\ options.recenter /\ Len(consumed) >= 1
    /\ consumed[1].meta.y_origin # Get(input, "rlnOriginY", 0)
    /\ \E px \in 1..Len(Pixels) : consumed[1].ctfproj_sub[px] # 0
    /\ consumed[1].ctfproj # consumed[1].ctfproj_sub

\* The recenter vector rotated by the Euler angles of input row k.
InputShift(k) ==
    Rotate(Transform(Get(input, "rlnAnglePsi", k), Get(input, "rlnAngleRot", k),
                     Get(input, "rlnAngleTilt", k), 0, 0),
           recenter)

\* C15: with recentering on, the vector is the one computed from the volumes
\* at startup in every later state, and every row written carries the input
\* origin plus the x and y of the vector rotated by the row's own angles,
\* added once.
C15_RecenterUpdate ==
    (Started /\ options.recenter /\ err # "volumes") =>
        /\ recenter = Vec3Minus(phase_cog(dens), phase_cog(VolMinus(dens, sub_dens)))
        /\ \A k \in 1..Len(Lines) :
              /\ Lines[k][Col("rlnOriginX")] =
                    Get(input, "rlnOriginX", k - 1) + InputShift(k - 1)[1]
              /\ Lines[k][Col("rlnOriginY")] =
                    Get(input, "rlnOriginY", k - 1) + InputShift(k - 1)[2]
              /\ consumed[k].meta.x_origin = Lines[k][Col("rlnOriginX")]
              /\ consumed[k].meta.y_origin = Lines[k][Col("rlnOriginY")]

C15_Witness ==
    /\ options.recenter /\ parallel /\ Len(Lines) >= 2
    /\ recenter # <<0, 0, 0>>
    /\ Lines[2][Col("rlnOriginX")] # Get(input, "rlnOriginX", 1)
    /\ InputShift(0) # InputShift(1)

ZeroSub == \A g \in 1..Len(sub_dens) : sub_dens[g] = 0

\* C16: with recentering on and an all-zero sub volume the vector is zero and
\* every row written carries the input origin, whatever the orientation.
C16_ZeroSubRecenter ==
    (Started /\ options.recenter /\ err # "volumes" /\ ZeroSub) =>
        /\ recenter = <<0, 0, 0>>
        /\ \A k \in 1..Len(Lines) :
              /\ Lines[k][Col("rlnOriginX")] = Get(input, "rlnOriginX", k - 1)
              /\ Lines[k][Col("rlnOriginY")] = Get(input, "rlnOriginY", k - 1)

C16_Witness ==
    /\ options.recenter /\ ZeroSub /\ Len(Lines) >= 2
    /\ phase_cog(dens) # <<0, 0, 0>>
    /\ Get(input, "rlnAngleRot", 1) # 0

IsOriginal(p) == p[Len(p)].ext = "_original.mrcs"

\* C17: with --original, after every write step each stack pair holds as many
\* originals as subtracted images, the k-th of each from the same particle;
\* without it no image is added to any original stack.
C17_OriginalParity ==
    Started =>
        IF options.original
        THEN \A n \in 1..(nfile - 1) :
                LET sub == disk[MrcsPath(options.suffix, n)]
                    orig == disk[MrcsOrigPath(options.suffix, n)]
                IN /\ Len(orig) = Len(sub)
                   /\ \A k \in 1..Len(sub) :
                         LET r == consumed[(n - 1) * options.maxpart + k]
                         IN /\ r.meta.i = (n - 1) * options.maxpart + k - 1
                            /\ sub[k] = r.ptcl_norm_sub
                            /\ orig[k] = r.ptcl
                            /\ r.ptcl = Particle(input, r.meta.i).ptcl
        ELSE \A p \in DOMAIN disk : IsOriginal(p) => (p \notin Opened /\ disk[p] = StaleStack)

C17_Witness ==
    /\ options.original /\ nfile = 3
    /\ Len(disk[MrcsOrigPath(options.suffix, 1)]) = 2
    /\ disk[MrcsOrigPath(options.suffix, 1)][2] # disk[MrcsPath(options.suffix, 1)][2]
    /\ disk[MrcsOrigPath(options.suffix, 1)][1] # disk[MrcsOrigPath(options.suffix, 1)][2]

\* The particles read from the table and not yet turned into results.
Pending ==
    {batch[k] : k \in 1..Len(batch)}
        \cup UNION {{taskqueue[q].items[k] : k \in 1..Len(taskqueue[q].items)}
                    : q \in 1..Len(taskqueue)}
        \cup UNION {{t.items[k] : k \in 1..Len(t.items)} : t \in running}

\* The results computed and not yet written.
Ready ==
    {chunk[k] : k \in 1..Len(chunk)}
        \cup UNION {{cache[j].items[k] : k \in 1..Len(cache[j].items)} : j \in DOMAIN cache}

\* The result r carries the image and the fields read from its input row:
\* the frame loaded, the angles, the CTF parameters, and the origin (with the
\* row's recentering shift added when recentering is on).
FromInput(r) ==
    LET k == r.meta.i
        m == MetaData(input, k)
        shift == IF recenter = <<>> THEN <<0, 0, 0>> ELSE InputShift(k)
    IN /\ r.ptcl = Particle(input, k).ptcl
       /\ r.meta.phi = m.phi /\ r.meta.psi = m.psi /\ r.meta.theta = m.theta
       /\ r.meta.ctf_params = m.ctf_params
       /\ r.meta.x_origin = m.x_origin + shift[1]
       /\ r.meta.y_origin = m.y_origin + shift[2]

\* C18: the producer has read row j before the writer stores to row j: the
\* writer is never ahead of the producer, every store is to a row already
\* read, the rows not yet read hold their input values, and every particle
\* read and every result computed carries what its input row held.
C18_ReadBeforeWrite ==
    /\ i <= gen
    /\ \A e \in 1..Len(log) : log[e][2] < gen
    /\ \A key \in Keys : \A k \in gen..(N - 1) : Get(star, key, k) = Get(input, key, k)
    /\ \A x \in Pending : x.meta.i < gen /\ x = Particle(input, x.meta.i)
    /\ \A r \in Ready : r.meta.i < gen /\ FromInput(r)
    /\ \A k \in 1..Len(consumed) : consumed[k].meta.i = k - 1 /\ FromInput(consumed[k])

\* The producer is ahead of the writer, rows have been written and rows are
\* still to be read.
C18_Witness ==
    /\ parallel /\ handler = "run"
    /\ 1 <= i /\ i < gen /\ gen < N
    /\ Get(star, "rlnImageName", 0) # Get(input, "rlnImageName", 0)

\* ------------------------------------------------ what holds of C11, C12
\* C11, for the runs pool.imap accepts (one worker, or N >= nproc).
C11_WhenScheduled == (NoFailure /\ (parallel => N >= options.nproc)) ~> Completed

\* C12, with --recenter: line 56 raises before any particle is read.
C12_WhenRecentering ==
    (options.recenter /\ ~SameGrid) =>
        /\ gen = 0 /\ nfile = 1 /\ consumed = <<>>
        /\ pc \in {"start", "error"}
        /\ pc = "error" => err = "volumes"

====
